---- MODULE Spec2Model ----
(***************************************************************************)
(* RFM scoring and segmentation of src/rfm_analysis.py.                    *)
(*                                                                         *)
(* Two specifications over one set of variables:                           *)
(*   SpecFn  calls of the two pure functions rfm_score and segment on      *)
(*           inputs drawn from bounded sets;                               *)
(*   Spec    the module-level pipeline run (compute_rfm, the segment       *)
(*           apply, to_csv), followed by a second run on the same table    *)
(*           object, on a fresh identical table, or on a permuted table.   *)
(*                                                                         *)
(* Numbers.  Dates are day numbers; revenue is an exact non-negative       *)
(* number (integer units), so a sum does not depend on the order of its    *)
(* terms.  pd.qcut's bin edges are the quantiles k/5 of the ranks with     *)
(* linear interpolation; they are kept exact here as integers scaled by    *)
(* NBins.  (In pandas the edges are doubles: np.linspace(0,1,6) holds      *)
(* values >= k/5, so an edge that is an integer in exact arithmetic is     *)
(* never rounded below it, and every other edge is at least 1/5 away from  *)
(* any rank; the exact comparison below is the comparison pandas makes.)   *)
(***************************************************************************)
EXTENDS Integers, Sequences, FiniteSets, TLC

VARIABLES
    \* ---- pipeline (Spec) ----
    src,            \* the rows of table `performance` in the database
    df,             \* the DataFrame read at line 17: [cols, rows]
    pc,             \* position of the module-level script
    rfm_campaigns,  \* the module-level name bound at line 82
    err,            \* the exception that ended the script, with its line
    trace,          \* the steps of compute_rfm that were executed
    sink,           \* rfm_campaigns.csv: the tables written, oldest first
    run,            \* number of the current run
    how,            \* how the current run got its input
    prev,           \* outcome of the first run
    \* ---- function calls (SpecFn) ----
    fn,             \* which function is being called
    series,         \* argument of rfm_score
    ret,            \* result of rfm_score, per value of `reverse`
    row,            \* argument of segment
    label           \* result of segment

pipeVars == <<src, df, pc, rfm_campaigns, err, trace, sink, run, how, prev>>
fnVars   == <<fn, series, ret, row, label>>
vars     == <<src, df, pc, rfm_campaigns, err, trace, sink, run, how, prev,
              fn, series, ret, row, label>>

----------------------------------------------------------------------------
(* Bounds of the model *)

MaxN    == 6    \* longest series passed to rfm_score in SpecFn
MaxVal  == 3    \* series values are drawn from 1..MaxVal
MaxRows == 2    \* most rows of a table of the general family
MaxIds  == 3    \* entity ids of the general family are 1..MaxIds
MaxEnt  == 5    \* most entities of a table with one row per entity

Days == {1, 2}  \* dates of the records
Revs == {0, 1}  \* revenue of one record (non-negative)

(* Program constants *)

NBins   == 5    \* pd.qcut(ranks, 5, ...)

----------------------------------------------------------------------------
(* Generic helpers *)

SeqsUpTo(n, S) == UNION {[1..k -> S] : k \in 0..n}

Range(s) == {s[i] : i \in DOMAIN s}

Sorted(s) == SortSeq(s, LAMBDA a, b : a < b)

Pending == "pending"

----------------------------------------------------------------------------
(* rfm_score, lines 25-32 *)

\* Series.rank(method="first", ascending=...): element j is ranked before
\* element i when its value comes first in the direction asked for, and,
\* among equal values, when it appears first (in both directions).
RankBefore(s, ascending, j, i) ==
    \/ (ascending /\ s[j] < s[i])
    \/ (~ascending /\ s[j] > s[i])
    \/ (s[j] = s[i] /\ j < i)

\* Faulty variant: method="min", equal values share the lowest rank of their group
RankMin(s, ascending) ==
    [i \in DOMAIN s |->
        1 + Cardinality({j \in DOMAIN s :
                IF ascending THEN s[j] < s[i] ELSE s[j] > s[i]})]

\* Faulty variant: the direction flag is ignored
RankAscendingOnly(s, ascending) ==
    [i \in DOMAIN s |->
        1 + Cardinality({j \in DOMAIN s : RankBefore(s, TRUE, j, i)})]

\* Faulty variant: among equal values the later one is ranked first
RankLastFirst(s, ascending) ==
    [i \in DOMAIN s |->
        1 + Cardinality({j \in DOMAIN s :
                \/ (ascending /\ s[j] < s[i])
                \/ (~ascending /\ s[j] > s[i])
                \/ (s[j] = s[i] /\ j > i)})]

Rank(s, ascending) ==
    [i \in DOMAIN s |->
        1 + Cardinality({j \in DOMAIN s : RankBefore(s, ascending, j, i)})]

\* The bin edges 0..NBins of pd.qcut(x, NBins), times NBins: edge k is the
\* k/NBins quantile of x, interpolated linearly between the two nearest order
\* statistics.
BinEdges(x) ==
    LET s == Sorted(x)
    IN  [k \in 0..NBins |->
            LET pos == k * (Len(x) - 1)
                lo  == pos \div NBins
                fr  == pos % NBins
            IN  IF fr = 0 THEN NBins * s[lo + 1]
                ELSE NBins * s[lo + 1] + (s[lo + 2] - s[lo + 1]) * fr]

\* _bins_to_cuts raises ValueError("Bin edges must be unique") when two edges
\* coincide; the quantiles of an empty series are all NaN, which coincide.
QCutRaises(x) ==
    \/ Len(x) = 0
    \/ LET e == BinEdges(x)
       IN  \E k, l \in 0..NBins : k < l /\ e[k] = e[l]

\* Bucket of a value among the edges e: the intervals are right-closed and
\* the lowest edge belongs to the first one (include_lowest).
Bucket(e, v) ==
    IF NBins * v = e[0] THEN 1
    ELSE CHOOSE k \in 1..NBins :
            /\ NBins * v <= e[k]
            /\ \A l \in 1..(k - 1) : NBins * v > e[l]

Labels == <<1, 2, 3, 4, 5>>     \* labels=[1,2,3,4,5]

QCut(x) ==
    LET e == BinEdges(x)
    IN  [i \in DOMAIN x |-> Labels[Bucket(e, x[i])]]

\* The outcome of a call: the scores returned, or the exception raised.
Returned(v) == [raised |-> FALSE, val |-> v, exc |-> "none"]
Raised(e)   == [raised |-> TRUE, val |-> <<>>, exc |-> e]

rfm_score(s, reverse) ==
    LET ranks == Rank(s, ~reverse)
    IN  IF QCutRaises(ranks) THEN Raised("ValueError")
        ELSE Returned(QCut(ranks))

----------------------------------------------------------------------------
(* segment, lines 67-77 *)

\* Faulty variant: the Loyal Customers test comes before the Champions test
segmentLoyalFirst(r) ==
    IF r.F_Score >= 4 /\ r.M_Score >= 4 THEN "Loyal Customers"
    ELSE IF r.R_Score >= 4 /\ r.F_Score >= 4 /\ r.M_Score >= 4 THEN "Champions"
    ELSE IF r.R_Score >= 4 THEN "Recent Customers"
    ELSE IF r.R_Score <= 2 /\ r.F_Score >= 3 THEN "At Risk"
    ELSE "Others"

segment(r) ==
    IF r.R_Score >= 4 /\ r.F_Score >= 4 /\ r.M_Score >= 4 THEN "Champions"
    ELSE IF r.F_Score >= 4 /\ r.M_Score >= 4 THEN "Loyal Customers"
    ELSE IF r.R_Score >= 4 THEN "Recent Customers"
    ELSE IF r.R_Score <= 2 /\ r.F_Score >= 3 THEN "At Risk"
    ELSE "Others"

----------------------------------------------------------------------------
(* The input table, lines 17 and 39-46 *)

Columns == {"campaign_id", "date", "performance_id", "revenue_generated"}

id_col == "campaign_id"     \* compute_rfm(df, 'campaign_id'), line 82

\* A date cell is the text the database driver delivered ("str"), text that
\* is no date ("bad"), or, once parsed, a Timestamp ("ts").
StrDate(d) == [kind |-> "str", day |-> d]
BadDate    == [kind |-> "bad", day |-> 0]
TsDate(d)  == [kind |-> "ts", day |-> d]
NaT        == [kind |-> "NaT", day |-> 0]

\* pd.to_datetime raises on text that is no date (errors="raise").
Unparseable(c) == c.kind = "bad"

\* Faulty variant: a cell that is already a Timestamp is read as a count of
\* nanoseconds since the epoch and lands on the first day
to_datetimeEpoch(c) ==
    IF c.kind = "ts" THEN TsDate(1) ELSE TsDate(c.day)

\* pd.to_datetime on one cell: a Timestamp is returned as it is, text is
\* parsed.
to_datetime(c) ==
    IF c.kind = "ts" THEN c ELSE TsDate(c.day)

MaxOf(S) == CHOOSE m \in S : \A x \in S : x <= m

RECURSIVE SumSeq(_)
SumSeq(s) == IF s = <<>> THEN 0 ELSE Head(s) + SumSeq(Tail(s))

\* Series.max() of the parsed date column; NaT for an empty column.
DateMax(rows) ==
    IF rows = <<>> THEN NaT
    ELSE TsDate(MaxOf({rows[i].date.day : i \in DOMAIN rows}))

\* Faulty variant: the snapshot is the latest date itself
SnapshotNoDay(rows) == DateMax(rows)

\* line 40: df['date'].max() + pd.Timedelta(days=1); NaT + Timedelta is NaT.
Snapshot(rows) ==
    LET m == DateMax(rows)
    IN  IF m = NaT THEN NaT ELSE TsDate(m.day + 1)

\* The rows of one group, in table order.
GroupRows(rows, k) == SelectSeq(rows, LAMBDA r : r[id_col] = k)

\* The elements of a finite set of numbers, ascending.
Ascending(S) ==
    [i \in 1..Cardinality(S) |->
        CHOOSE k \in S : Cardinality({q \in S : q < k}) = i - 1]

\* Faulty variant: groupby(sort=False), the keys in order of first appearance
GroupKeysFirstSeen(rows) ==
    LET first == {i \in DOMAIN rows :
                    \A j \in 1..(i - 1) : rows[j][id_col] # rows[i][id_col]}
        pos   == Ascending(first)
    IN  [i \in DOMAIN pos |-> rows[pos[i]][id_col]]

\* groupby(id_col) with the default sort=True: the distinct keys, ascending.
GroupKeys(rows) == Ascending({rows[i][id_col] : i \in DOMAIN rows})

Column(t, c) == [i \in DOMAIN t |-> t[i][c]]

\* lines 42-48: one row per key with the three aggregates; 'count' counts the
\* cells of the key column performance_id, none of which is NULL.
\* One row per key with the three aggregates.
Aggregate(rows, snapshot_date) ==
    LET keys == GroupKeys(rows)
    IN  [i \in DOMAIN keys |->
            LET g == GroupRows(rows, keys[i])
            IN  [campaign_id |-> keys[i],
                 Recency     |-> snapshot_date.day - DateMax(g).day,
                 Frequency   |-> Len(Column(g, "performance_id")),
                 Monetary    |-> SumSeq([j \in DOMAIN g |-> g[j].revenue_generated])]]

\* lines 56-60
RFMString(r, f, m) == ToString(r) \o ToString(f) \o ToString(m)

\* compute_rfm, lines 37-62.  The outcome names the table returned or the
\* exception raised, the table object as the call leaves it, and the steps
\* that ran.
compute_rfm(d) ==
    IF "date" \notin d.cols
    THEN [raised |-> TRUE, val |-> <<>>, df |-> d,
          err |-> [type |-> "KeyError", line |-> 39],
          trace |-> <<"to_datetime">>]
    ELSE IF \E i \in DOMAIN d.rows : Unparseable(d.rows[i].date)
    THEN [raised |-> TRUE, val |-> <<>>, df |-> d,
          err |-> [type |-> "ValueError", line |-> 39],
          trace |-> <<"to_datetime">>]
    ELSE
    LET parsed == [i \in DOMAIN d.rows |->
                      [d.rows[i] EXCEPT !.date = to_datetime(d.rows[i].date)]]
        d1 == [d EXCEPT !.rows = parsed]
        snapshot_date == Snapshot(parsed)
    IN  IF ~({id_col, "performance_id", "revenue_generated"} \subseteq d.cols)
        THEN [raised |-> TRUE, val |-> <<>>, df |-> d1,
              err |-> [type |-> "KeyError", line |-> 42],
              trace |-> <<"to_datetime", "snapshot", "groupby">>]
        ELSE
        LET rfm == Aggregate(parsed, snapshot_date)
            R == rfm_score(Column(rfm, "Recency"), TRUE)
            F == rfm_score(Column(rfm, "Frequency"), FALSE)
            M == rfm_score(Column(rfm, "Monetary"), FALSE)
        IN  IF R.raised
            THEN [raised |-> TRUE, val |-> <<>>, df |-> d1,
                  err |-> [type |-> R.exc, line |-> 51],
                  trace |-> <<"to_datetime", "snapshot", "groupby", "R_Score">>]
            ELSE IF F.raised
            THEN [raised |-> TRUE, val |-> <<>>, df |-> d1,
                  err |-> [type |-> F.exc, line |-> 52],
                  trace |-> <<"to_datetime", "snapshot", "groupby", "R_Score",
                              "F_Score">>]
            ELSE IF M.raised
            THEN [raised |-> TRUE, val |-> <<>>, df |-> d1,
                  err |-> [type |-> M.exc, line |-> 53],
                  trace |-> <<"to_datetime", "snapshot", "groupby", "R_Score",
                              "F_Score", "M_Score">>]
            ELSE [raised |-> FALSE,
                  val |-> [i \in DOMAIN rfm |->
                            [campaign_id |-> rfm[i].campaign_id,
                             Recency     |-> rfm[i].Recency,
                             Frequency   |-> rfm[i].Frequency,
                             Monetary    |-> rfm[i].Monetary,
                             R_Score     |-> R.val[i],
                             F_Score     |-> F.val[i],
                             M_Score     |-> M.val[i],
                             RFM_Score   |-> RFMString(R.val[i], F.val[i], M.val[i])]],
                  df |-> d1,
                  err |-> [type |-> "none", line |-> 0],
                  trace |-> <<"to_datetime", "snapshot", "groupby", "R_Score",
                              "F_Score", "M_Score", "RFM_Score">>]

\* line 85: rfm_campaigns.apply(segment, axis=1) stored as column Segment
WithSegment(t) ==
    [i \in DOMAIN t |->
        [campaign_id |-> t[i].campaign_id,
         Recency     |-> t[i].Recency,
         Frequency   |-> t[i].Frequency,
         Monetary    |-> t[i].Monetary,
         R_Score     |-> t[i].R_Score,
         F_Score     |-> t[i].F_Score,
         M_Score     |-> t[i].M_Score,
         RFM_Score   |-> t[i].RFM_Score,
         Segment     |-> segment(t[i])]]

\* line 91: to_csv(index=False): a header line, then one line per row with
\* every field rendered as text, no index column.
Header == <<"campaign_id", "Recency", "Frequency", "Monetary", "R_Score",
            "F_Score", "M_Score", "RFM_Score", "Segment">>

to_csv(t) ==
    <<Header>> \o
    [i \in DOMAIN t |->
        <<ToString(t[i].campaign_id), ToString(t[i].Recency),
          ToString(t[i].Frequency), ToString(t[i].Monetary),
          ToString(t[i].R_Score), ToString(t[i].F_Score),
          ToString(t[i].M_Score), t[i].RFM_Score, t[i].Segment>>]

----------------------------------------------------------------------------
(* Inputs *)

RawRows(ids) ==
    [campaign_id : ids, date : {StrDate(d) : d \in Days}, revenue_generated : Revs]

\* performance_id is the primary key of the table: row i carries key i.
Keyed(t) ==
    [i \in DOMAIN t |->
        [campaign_id       |-> t[i].campaign_id,
         date              |-> t[i].date,
         performance_id    |-> i,
         revenue_generated |-> t[i].revenue_generated]]

\* Every table of at most MaxRows rows over the entities 1..MaxIds.
GeneralTables == SeqsUpTo(MaxRows, RawRows(1..MaxIds))

\* One row per entity, for the entities 1..n, n <= MaxEnt.
OnePerEntity ==
    UNION {{[i \in 1..n |->
                [campaign_id |-> i, date |-> StrDate(v[i][1]),
                 revenue_generated |-> v[i][2]]] : v \in [1..n -> Days \X Revs]}
            : n \in 1..MaxEnt}

\* The general tables that are shorter than the longest.
ShortTables == {t \in GeneralTables : Len(t) < MaxRows}

\* A table one of whose date cells is no date: a bad cell in a short table,
\* or a row with a bad cell appended to one.
BadDateTables ==
    UNION {{[t EXCEPT ![i].date = BadDate] : i \in DOMAIN t}
            \cup {Append(t, [campaign_id |-> 1, date |-> BadDate,
                             revenue_generated |-> 0])}
            : t \in ShortTables}

DropCol(rows, c) ==
    [i \in DOMAIN rows |-> [k \in Columns \ {c} |-> rows[i][k]]]

\* What line 17 can deliver: a table with every column, or a short table
\* that lacks one of the columns the script reads.
Sources ==
    {[cols |-> Columns, rows |-> Keyed(t)] :
        t \in GeneralTables \cup OnePerEntity \cup BadDateTables}
    \cup {[cols |-> Columns \ {c}, rows |-> DropCol(Keyed(t), c)] :
            t \in ShortTables, c \in Columns}

\* Orders in which the database may return the same rows: SELECT * carries no
\* ORDER BY.  Adjacent transpositions, the rotation and the reversal of 1..n.
Shuffles(n) ==
    {[i \in 1..n |-> IF i = a THEN a + 1 ELSE IF i = a + 1 THEN a ELSE i] :
        a \in 1..(n - 1)}
    \cup {[i \in 1..n |-> (i % n) + 1]}
    \cup {[i \in 1..n |-> n + 1 - i]}

Reordered(t, p) == [t EXCEPT !.rows = [i \in DOMAIN t.rows |-> t.rows[p[i]]]]

\* The series of the worked example: ten distinct values.
Example10 == <<1, 2, 3, 4, 5, 6, 7, 8, 9, 10>>

\* Every series of at most MaxN values, every two-valued series as long as the
\* example, and the example.
SeriesInputs ==
    SeqsUpTo(MaxN, 1..MaxVal) \cup [DOMAIN Example10 -> {1, 2}] \cup {Example10}

ScoreRows == [R_Score : 1..NBins, F_Score : 1..NBins, M_Score : 1..NBins]

----------------------------------------------------------------------------
(* The pipeline run, lines 82-91 *)

NoErr  == [type |-> "none", line |-> 0]
NoPrev == [pc |-> "none", table |-> <<>>, err |-> NoErr]
NoRet  == [b \in BOOLEAN |-> [called |-> FALSE, out |-> Returned(<<>>)]]
NoRow  == [R_Score |-> 1, F_Score |-> 1, M_Score |-> 1]
NoDf   == [cols |-> Columns, rows |-> <<>>]

FnIdle ==
    /\ fn = "none"
    /\ series = <<>>
    /\ ret = NoRet
    /\ row = NoRow
    /\ label = Pending

PipeIdle ==
    /\ src = NoDf
    /\ df = NoDf
    /\ pc = "idle"
    /\ rfm_campaigns = <<>>
    /\ err = NoErr
    /\ trace = <<>>
    /\ sink = <<>>
    /\ run = 0
    /\ how = "none"
    /\ prev = NoPrev

\* State after line 17: the table has been read.
Init ==
    /\ src \in Sources
    /\ df = src
    /\ pc = "start"
    /\ rfm_campaigns = <<>>
    /\ err = NoErr
    /\ trace = <<>>
    /\ sink = <<>>
    /\ run = 1
    /\ how = "first"
    /\ prev = NoPrev
    /\ FnIdle

\* line 82: rfm_campaigns = compute_rfm(df, 'campaign_id'); an exception ends
\* the script.
ComputeRfm ==
    /\ pc = "start"
    /\ LET o == compute_rfm(df)
       IN  /\ df' = o.df
           /\ trace' = o.trace
           /\ \/ /\ ~o.raised
                 /\ pc' = "computed"
                 /\ rfm_campaigns' = o.val
                 /\ err' = err
              \/ /\ o.raised
                 /\ pc' = "failed"
                 /\ err' = o.err
                 /\ rfm_campaigns' = rfm_campaigns
    /\ UNCHANGED <<src, sink, run, how, prev, fnVars>>

\* line 85
ApplySegment ==
    /\ pc = "computed"
    /\ rfm_campaigns' = WithSegment(rfm_campaigns)
    /\ pc' = "segmented"
    /\ UNCHANGED <<src, df, err, trace, sink, run, how, prev, fnVars>>

\* line 91: the file is overwritten; sink keeps what each write put there.
Save ==
    /\ pc = "segmented"
    /\ sink' = Append(sink, to_csv(rfm_campaigns))
    /\ pc' = "saved"
    /\ UNCHANGED <<src, df, rfm_campaigns, err, trace, run, how, prev, fnVars>>

Finished == pc \in {"saved", "failed"}

Outcome == [pc |-> pc, table |-> rfm_campaigns, err |-> err]

\* Lines 82-91 are run again on the same table object, whose date column the
\* first run has parsed in place.
RerunSame ==
    /\ Finished /\ run = 1
    /\ run' = 2 /\ how' = "same"
    /\ prev' = Outcome
    /\ pc' = "start" /\ err' = NoErr /\ trace' = <<>>
    /\ UNCHANGED <<src, df, rfm_campaigns, sink, fnVars>>

\* The script is run again: the same table is read again.
RerunFresh ==
    /\ Finished /\ run = 1
    /\ run' = 2 /\ how' = "fresh"
    /\ prev' = Outcome
    /\ df' = src /\ rfm_campaigns' = <<>>
    /\ pc' = "start" /\ err' = NoErr /\ trace' = <<>>
    /\ UNCHANGED <<src, sink, fnVars>>

\* The script is run again and the database returns the rows in another order.
RerunShuffled ==
    /\ Finished /\ run = 1
    /\ \E p \in Shuffles(Len(src.rows)) :
          /\ src' = Reordered(src, p)
          /\ src' # src
          /\ df' = src'
    /\ run' = 2 /\ how' = "shuffled"
    /\ prev' = Outcome
    /\ rfm_campaigns' = <<>>
    /\ pc' = "start" /\ err' = NoErr /\ trace' = <<>>
    /\ UNCHANGED <<sink, fnVars>>

Next ==
    \/ ComputeRfm
    \/ ApplySegment
    \/ Save
    \/ RerunSame
    \/ RerunFresh
    \/ RerunShuffled

Spec == Init /\ [][Next]_vars

----------------------------------------------------------------------------
(* Calls of the pure functions *)

InitFn ==
    /\ PipeIdle
    /\ \/ /\ fn = "rfm_score"
          /\ series \in SeriesInputs
          /\ ret = NoRet
          /\ row = NoRow
          /\ label = Pending
       \/ /\ fn = "segment"
          /\ series = <<>>
          /\ ret = NoRet
          /\ row \in ScoreRows
          /\ label = Pending

\* rfm_score(series, reverse)
CallRfmScore(reverse) ==
    /\ fn = "rfm_score"
    /\ ~ret[reverse].called
    /\ ret' = [ret EXCEPT ![reverse] =
                    [called |-> TRUE, out |-> rfm_score(series, reverse)]]
    /\ UNCHANGED <<fn, series, row, label, pipeVars>>

\* segment(row)
CallSegment ==
    /\ fn = "segment"
    /\ label = Pending
    /\ label' = segment(row)
    /\ UNCHANGED <<fn, series, ret, row, pipeVars>>

NextFn ==
    \/ \E reverse \in BOOLEAN : CallRfmScore(reverse)
    \/ CallSegment

SpecFn == InitFn /\ [][NextFn]_vars

----------------------------------------------------------------------------
(* Properties of segment and rfm_score, checked under SpecFn *)

SegmentLabels ==
    <<"Champions", "Loyal Customers", "Recent Customers", "At Risk", "Others">>

\* The rule table: rule k applies to the triple r.
RuleApplies(k, r) ==
    CASE k = 1 -> r.R_Score >= 4 /\ r.F_Score >= 4 /\ r.M_Score >= 4
      [] k = 2 -> r.F_Score >= 4 /\ r.M_Score >= 4
      [] k = 3 -> r.R_Score >= 4
      [] k = 4 -> r.R_Score <= 2 /\ r.F_Score >= 3
      [] OTHER -> TRUE

FirstRule(r) ==
    CHOOSE k \in DOMAIN SegmentLabels :
        RuleApplies(k, r) /\ \A l \in 1..(k - 1) : ~RuleApplies(l, r)

Triple(r, f, m) == [R_Score |-> r, F_Score |-> f, M_Score |-> m]

\* C1: segment is total and first-match-wins: every triple of scores in 1..5
\* gets exactly one of the five labels, the label of the first rule of the
\* table that applies; (5,5,5) is Champions, (4,2,2) Recent Customers and
\* (1,3,1) At Risk.
C1_SegmentFirstMatch ==
    (fn = "segment" /\ label # Pending) =>
        /\ label \in Range(SegmentLabels)
        /\ label = SegmentLabels[FirstRule(row)]
        /\ (row = Triple(5, 5, 5) => label = "Champions")
        /\ (row = Triple(4, 2, 2) => label = "Recent Customers")
        /\ (row = Triple(1, 3, 1) => label = "At Risk")

\* A triple to which rules 1 and 2 both apply has been classified.
C1_Witness ==
    /\ fn = "segment"
    /\ RuleApplies(1, row) /\ RuleApplies(2, row)
    /\ label = "Champions"

Count(s, k) == Cardinality({i \in DOMAIN s : s[i] = k})

Floor5(n) == n \div NBins
Ceil5(n)  == (n + NBins - 1) \div NBins

\* C2: for a series of N >= 5 values and either direction rfm_score returns N
\* scores in 1..5, and each score value is given to floor(N/5) or ceil(N/5)
\* elements (so to exactly N/5 when 5 divides N).
C2_EqualBuckets ==
    \A b \in BOOLEAN :
        (fn = "rfm_score" /\ ret[b].called /\ Len(series) >= NBins) =>
            /\ ~ret[b].out.raised
            /\ Len(ret[b].out.val) = Len(series)
            /\ \A i \in DOMAIN series : ret[b].out.val[i] \in 1..NBins
            /\ \A k \in 1..NBins :
                  Count(ret[b].out.val, k) \in
                      {Floor5(Len(series)), Ceil5(Len(series))}

\* A series of 5 or more values with equal values in it has been scored in
\* the inverted direction.
C2_Witness ==
    /\ fn = "rfm_score"
    /\ Len(series) > NBins
    /\ \E i, j \in DOMAIN series : i # j /\ series[i] = series[j]
    /\ ret[TRUE].called
    /\ ~ret[TRUE].out.raised

\* C3: with fewer than 5 values (N in 1..4) scoring ends in an error and
\* returns no scores.
C3_SmallSeriesRaises ==
    \A b \in BOOLEAN :
        (fn = "rfm_score" /\ ret[b].called /\ Len(series) \in 1..(NBins - 1)) =>
            ret[b].out.raised

Holders(s, v) == {i \in DOMAIN s : s[i] = v}
SeriesMax(s) == MaxOf(Range(s))
SeriesMin(s) == CHOOSE m \in Range(s) : \A x \in Range(s) : m <= x
First(S) == CHOOSE i \in S : \A j \in S : i <= j
Last(S)  == CHOOSE i \in S : \A j \in S : j <= i

BothCalled ==
    /\ fn = "rfm_score"
    /\ ret[FALSE].called /\ ret[TRUE].called
    /\ Len(series) >= NBins

\* C8 as stated: with N >= 5 every element holding the maximum gets score 5
\* without reverse and 1 with reverse, and every element holding the minimum
\* gets 1 and 5.
C8_EveryHolder ==
    BothCalled =>
        /\ \A i \in Holders(series, SeriesMax(series)) :
              ret[FALSE].out.val[i] = NBins /\ ret[TRUE].out.val[i] = 1
        /\ \A i \in Holders(series, SeriesMin(series)) :
              ret[FALSE].out.val[i] = 1 /\ ret[TRUE].out.val[i] = NBins

\* C8 amended: with N >= 5, among the elements holding the maximum the last
\* one in input order gets score 5 without reverse and the first one gets
\* score 1 with reverse; among those holding the minimum the first one gets 1
\* without reverse and the last one gets 5 with reverse.  An element that
\* alone holds the maximum (minimum) therefore gets 5 and 1 (1 and 5).
C8_ExtremeHolders ==
    BothCalled =>
        LET hi == Holders(series, SeriesMax(series))
            lo == Holders(series, SeriesMin(series))
        IN  /\ ret[FALSE].out.val[Last(hi)] = NBins
            /\ ret[TRUE].out.val[First(hi)] = 1
            /\ ret[FALSE].out.val[First(lo)] = 1
            /\ ret[TRUE].out.val[Last(lo)] = NBins
            /\ (Cardinality(hi) = 1 =>
                    \A i \in hi : ret[FALSE].out.val[i] = NBins
                                  /\ ret[TRUE].out.val[i] = 1)
            /\ (Cardinality(lo) = 1 =>
                    \A i \in lo : ret[FALSE].out.val[i] = 1
                                  /\ ret[TRUE].out.val[i] = NBins)

\* A series whose maximum is held by one element and whose minimum by several
\* has been scored in both directions.
C8_Witness ==
    /\ BothCalled
    /\ Cardinality(Holders(series, SeriesMax(series))) = 1
    /\ Cardinality(Holders(series, SeriesMin(series))) > 1

IsPermutationOf1toN(r) ==
    /\ Range(r) = 1..Len(r)
    /\ \A i, j \in DOMAIN r : i # j => r[i] # r[j]

\* C9: the ranks are the numbers 1..N, each given once; the scores follow the
\* ranks; without reverse a smaller value never gets a higher score, with
\* reverse never a lower one; in both directions, of two equal values the
\* earlier has the lower rank and a score no higher than the later.  The
\* values 1..10 without reverse score 1,1,2,2,3,3,4,4,5,5.
C9_StableMonotone ==
    \A b \in BOOLEAN :
        (fn = "rfm_score" /\ ret[b].called /\ ~ret[b].out.raised) =>
            LET r  == Rank(series, ~b)
                sc == ret[b].out.val
            IN  /\ IsPermutationOf1toN(r)
                /\ \A i, j \in DOMAIN series :
                      /\ (r[i] < r[j] => sc[i] <= sc[j])
                      /\ (series[i] < series[j] =>
                            IF b THEN sc[i] >= sc[j] ELSE sc[i] <= sc[j])
                      /\ ((series[i] = series[j] /\ i < j) =>
                            r[i] < r[j] /\ sc[i] <= sc[j])
                /\ ((series = Example10 /\ ~b) =>
                        sc = <<1, 1, 2, 2, 3, 3, 4, 4, 5, 5>>)

\* Two equal values have been given different scores in the inverted
\* direction.
C9_Witness ==
    /\ fn = "rfm_score"
    /\ ret[TRUE].called /\ ~ret[TRUE].out.raised
    /\ \E i, j \in DOMAIN series :
          /\ i < j /\ series[i] = series[j]
          /\ ret[TRUE].out.val[i] < ret[TRUE].out.val[j]

----------------------------------------------------------------------------
(* Properties of the pipeline, checked under Spec *)

Computed == pc \in {"computed", "segmented", "saved"}

EntityIds(t) == {t.rows[i][id_col] : i \in DOMAIN t.rows}

\* The rows of entity k hold a record of the latest date of the table.
HoldsLatest(t, k) ==
    \E i \in DOMAIN t.rows :
        /\ t.rows[i][id_col] = k
        /\ \A j \in DOMAIN t.rows : t.rows[j].date.day <= t.rows[i].date.day

ScoreTexts == {ToString(k) : k \in 1..NBins}

\* A line of the file carries every field, its scores and its segment.
CompleteLine(l) ==
    /\ Len(l) = Len(Header)
    /\ l[5] \in ScoreTexts /\ l[6] \in ScoreTexts /\ l[7] \in ScoreTexts
    /\ l[9] \in Range(SegmentLabels)

WrittenThisRun == Len(sink) >= run

\* C5: the pipeline is all-or-nothing: a table is written only after
\* aggregation, the three scorings and segmentation succeeded for every
\* entity; on an error (empty input, malformed date, missing column,
\* insufficient data, i.e. fewer than 5 distinct entities) nothing is written;
\* no written table holds a row lacking a score or a segment.
C5_AllOrNothing ==
    /\ (pc = "failed" => ~WrittenThisRun)
    /\ (WrittenThisRun =>
            /\ pc = "saved"
            /\ Len(sink[run]) = Len(rfm_campaigns) + 1
            /\ \A i \in 2..Len(sink[run]) : CompleteLine(sink[run][i]))
    /\ ((\/ df.cols # Columns
         \/ df.rows = <<>>
         \/ \E i \in DOMAIN df.rows : df.rows[i].date.kind = "bad"
         \/ Cardinality(EntityIds(df)) < NBins) => ~WrittenThisRun)

\* C6: a second run on identical input, also one on the same table object
\* whose dates the first run parsed in place, ends as the first run did and
\* writes the same table: same rows, metrics, scores and segments in the same
\* order.
C6_SecondRunIdentical ==
    (run = 2 /\ how \in {"same", "fresh"} /\ Finished) =>
        /\ pc = prev.pc
        /\ err = prev.err
        /\ (pc = "saved" =>
                /\ rfm_campaigns = prev.table
                /\ Len(sink) = 2
                /\ sink[2] = sink[1])

\* The second run on the same table object has written a table of 5 or more
\* entities of differing recency.
C6_Witness ==
    /\ run = 2 /\ how = "same" /\ pc = "saved"
    /\ Len(rfm_campaigns) >= NBins
    /\ \E i, j \in DOMAIN rfm_campaigns :
          rfm_campaigns[i].Recency # rfm_campaigns[j].Recency

\* C7: with zero records aggregation fails with EmptyInputError at the
\* snapshot-date step, before any grouping or scoring, and produces no
\* metrics table.
C7_EmptyFailsAtSnapshot ==
    (df.rows = <<>> /\ df.cols = Columns /\ pc # "start") =>
        /\ pc = "failed"
        /\ err.type = "EmptyInputError"
        /\ trace = <<"to_datetime", "snapshot">>
        /\ rfm_campaigns = <<>>

====
